---- MODULE Spec2Model ----
(***************************************************************************)
(* Access-code-gated message and file relay (app/routes.py, app/models.py).*)
(*                                                                         *)
(* The persistent state is the two tables (messages, file_access) and the  *)
(* upload directory tree.  Every HTTP request is handled by one of the     *)
(* workers; a handler is a sequence of steps, one per database statement,  *)
(* filesystem call or awaited stream operation, and the steps of handlers  *)
(* running in different workers interleave freely.                         *)
(*                                                                         *)
(* Strings that the code takes apart (file names) are sequences of         *)
(* one-character strings; a uuid4 token is one opaque character.           *)
(***************************************************************************)
EXTENDS Integers, Sequences, FiniteSets, TLC

VARIABLES
    messages,     \* rows of table "messages"
    fileAccess,   \* rows of table "file_access"
    files,        \* regular files under UPLOAD_DIR: [dir, name, data, len, open]
    dirs,         \* per-access-code sub-folders of UPLOAD_DIR that exist
    req,          \* per worker: the request it is handling and where it stands
    nextId,       \* next primary key the messages table hands out
    nextUuid,     \* number of uuid4() tokens drawn so far, plus one
    clock,        \* datetime.now(): the reading the next stored row gets (two
                  \* commits never fall in the same microsecond)
    failed,       \* history: stored names of uploads that ended in an error
    deleted,      \* history: [filename, access_code] of the blobs of messages
                  \* that delete_message removed with success
    created       \* history: <<creator_ip, access_code>> of every row ever
                  \* written to table "messages"

vars == <<messages, fileAccess, files, dirs, req, nextId, nextUuid, clock, failed,
         deleted, created>>

(***************************************************************************)
(* Program constants                                                       *)
(***************************************************************************)
MAX_FILE_SIZE == 100 * 1024 * 1024

MAX_ACCESS_CODES_PER_IP == 5

CHUNK_SIZE == 8192

FileTypes == {"image", "file", "video"}

(***************************************************************************)
(* Bounds of the model                                                     *)
(***************************************************************************)
MaxMessages == 3

MaxUploads == 2

MaxExtraMessages == 1

MaxBlobs == 1

MaxFileMessages == 2

\* the same two, where the blobs are fetched as well
MaxGoneBlobs == 1

MaxGoneMessages == 1

Workers == {"w1", "w2"}

Idle == [pc |-> "idle", op |-> "none"]

Min(a, b) == IF a < b THEN a ELSE b

Max(a, b) == IF a < b THEN b ELSE a

(***************************************************************************)
(* Responses.  detail is the text of the HTTPException, transliterated.    *)
(***************************************************************************)
HTTPException(status, detail) == [status |-> status, detail |-> detail]

QuotaExceeded == HTTPException(429, "access_code limit reached")

InternalError == HTTPException(500, "internal server error")

\* an exception that escapes the handler: the framework answers 500
Unhandled == HTTPException(500, "Internal Server Error")

Done(r, resp) == [pc |-> "done", op |-> r.op, in |-> r, resp |-> resp]

(***************************************************************************)
(* create_message                                                          *)
(***************************************************************************)
\* SELECT count(DISTINCT access_code) FROM messages WHERE creator_ip = ip
DistinctAccessCodes(ip) ==
    Cardinality({m.access_code : m \in {x \in messages : x.creator_ip = ip}})

\* SELECT ... WHERE access_code = code AND creator_ip = ip LIMIT 1
ExistingAccessCode(code, ip) ==
    \E m \in messages : m.access_code = code /\ m.creator_ip = ip

\* the quota test made before anything else
OverQuota(distinct) == distinct >= MAX_ACCESS_CODES_PER_IP

\* Message(**message, created_at=china_time, creator_ip=ip): the row that is
\* added; the primary key is the body's "id" when the body has one
NewMessage(body, ip, now, autoId) ==
    [id          |-> IF body.extra = "id" THEN body.id ELSE autoId,
     type        |-> body.type,
     content     |-> body.content,
     created_at  |-> now,
     access_code |-> body.access_code,
     creator_ip  |-> ip]

\* first statement of the handler: the distinct-code count and the quota test
\* (owned is history: whether the origin had a row under the code by then)
CmCount(w, ips, bodies, cap) ==
    /\ req[w].pc = "idle"
    /\ clock <= cap
    /\ \E ip \in ips, body \in bodies :
         LET distinct == DistinctAccessCodes(ip)
             r == [op |-> "create", ip |-> ip, body |-> body,
                   distinct_access_codes |-> distinct,
                   owned |-> ExistingAccessCode(body.access_code, ip)]
         IN req' = [req EXCEPT ![w] =
                      IF OverQuota(distinct)
                      THEN Done(r, QuotaExceeded)
                      ELSE [pc |-> "cm_insert"] @@ r]
    /\ UNCHANGED <<messages, fileAccess, files, dirs, nextId, nextUuid, clock, failed, deleted, created>>

\* the row built as Message(**{"created_at": china_time, "creator_ip": ip,
\* **message}): a body key takes the place of the server's value (the epoch
\* and an address of the caller's choice stand for what the body carries)
CmInsert_BodyWins(w) ==
    /\ req[w].pc = "cm_insert"
    /\ LET r == req[w]
           existing == ExistingAccessCode(r.body.access_code, r.ip)
           base == NewMessage(r.body, r.ip, clock, nextId)
           row == [base EXCEPT
                     !.created_at = IF r.body.extra = "created_at" THEN 0 ELSE @,
                     !.creator_ip = IF r.body.extra = "creator_ip" THEN "ip0" ELSE @]
           admit == existing \/ r.distinct_access_codes < MAX_ACCESS_CODES_PER_IP
           integrityError == \E m \in messages : m.id = row.id
       IN IF ~admit
          THEN /\ req' = [req EXCEPT ![w] = Done(r, QuotaExceeded)]
               /\ UNCHANGED <<messages, nextId, clock, created>>
          ELSE IF integrityError
          THEN /\ req' = [req EXCEPT ![w] = Done(r, InternalError)]
               /\ UNCHANGED <<messages, nextId, clock, created>>
          ELSE /\ messages' = messages \cup {row}
               /\ created' = created \cup {<<row.creator_ip, row.access_code>>}
               /\ nextId' = Max(nextId, row.id + 1)
               /\ clock' = clock + 1
               /\ req' = [req EXCEPT ![w] =
                            Done(r, [status |-> 200, detail |-> "ok", message |-> row])]
    /\ UNCHANGED <<fileAccess, files, dirs, nextUuid, failed, deleted>>

\* the existing-code query, the clock reading, and the INSERT with its commit
CmInsert(w) ==
    /\ req[w].pc = "cm_insert"
    /\ LET r == req[w]
           existing == ExistingAccessCode(r.body.access_code, r.ip)
           row == NewMessage(r.body, r.ip, clock, nextId)
           admit == existing \/ r.distinct_access_codes < MAX_ACCESS_CODES_PER_IP
           \* a body key that collides with an explicit keyword is a TypeError;
           \* a primary key already in the table is an IntegrityError
           typeError == r.body.extra \in {"created_at", "creator_ip"}
           integrityError == \E m \in messages : m.id = row.id
       IN IF ~admit
          THEN /\ req' = [req EXCEPT ![w] = Done(r, QuotaExceeded)]
               /\ UNCHANGED <<messages, nextId, clock, created>>
          ELSE IF typeError \/ integrityError
          THEN /\ req' = [req EXCEPT ![w] = Done(r, InternalError)]
               /\ UNCHANGED <<messages, nextId, clock, created>>
          ELSE /\ messages' = messages \cup {row}
               /\ created' = created \cup {<<row.creator_ip, row.access_code>>}
               /\ nextId' = Max(nextId, row.id + 1)
               /\ clock' = clock + 1
               /\ req' = [req EXCEPT ![w] =
                            Done(r, [status |-> 200, detail |-> "ok", message |-> row])]
    /\ UNCHANGED <<fileAccess, files, dirs, nextUuid, failed, deleted>>

(***************************************************************************)
(* File names and the upload directory                                     *)
(***************************************************************************)
RECURSIVE RFind(_, _, _)
\* str.rfind on the first i characters: the last position of ch, 0 when absent
RFind(s, ch, i) ==
    IF i = 0 THEN 0 ELSE IF s[i] = ch THEN i ELSE RFind(s, ch, i - 1)

\* os.path.splitext(p)[1]: from the last dot of the last path component,
\* unless only dots precede it in that component
FileExtension(p) ==
    LET sepIndex == RFind(p, "/", Len(p))
        dotIndex == RFind(p, ".", Len(p))
    IN IF dotIndex > sepIndex
          /\ \E k \in (sepIndex + 1)..(dotIndex - 1) : p[k] # "."
       THEN SubSeq(p, dotIndex, Len(p))
       ELSE <<>>

\* str(uuid.uuid4()): a fresh token
Uuid(n) == "u" \o ToString(n)

\* f"{uuid.uuid4()}{file_extension}"
UniqueFilename(n, original) == <<Uuid(n)>> \o FileExtension(original)

\* os.path.exists(os.path.join(UPLOAD_DIR, code, name))
PathExists(code, name) == \E f \in files : f.dir = code /\ f.name = name

FileAt(code, name) == CHOOSE f \in files : f.dir = code /\ f.name = name

\* os.listdir(os.path.join(UPLOAD_DIR, code))
ListDir(code) == {f \in files : f.dir = code}

\* a removal that leaves the file where it is
RemovePath_Keeping(code, name) == files

\* os.remove(path), the path being there
RemovePath(code, name) == {f \in files : ~(f.dir = code /\ f.name = name)}

(***************************************************************************)
(* upload_file                                                             *)
(***************************************************************************)
TooLarge == HTTPException(413, "file too large")

\* the size test one chunk late
OverCap_Late(file_size) == file_size > MAX_FILE_SIZE + CHUNK_SIZE

\* the size test made on every chunk, before the chunk is written
OverCap(file_size) == file_size > MAX_FILE_SIZE

\* await file.read(8192): the length of the next chunk of the stream
NextChunk(stream, offset) == Min(CHUNK_SIZE, stream.size - offset)

\* every chunk written at the start of the file instead of its end
WriteChunk_Overwriting(f, n) == [f EXCEPT !.len = n]

\* await out_file.write(content)
WriteChunk(f, n) == [f EXCEPT !.len = f.len + n]

\* FileAccess(filename=unique_filename, access_code=access_code)
NewFileAccess(r) == [filename |-> r.unique_filename, access_code |-> r.access_code]

\* except Exception: remove the destination when it exists, answer 500
UploadFailed(w, r) ==
    /\ files' = RemovePath(r.access_code, r.unique_filename)
    /\ failed' = failed \cup {r.unique_filename}
    /\ req' = [req EXCEPT ![w] = Done(r, InternalError)]

\* os.path.exists(subfolder)
UpExists(w, codes, uploads, cap) ==
    /\ req[w].pc = "idle"
    /\ nextUuid <= cap
    /\ \E code \in codes, up \in uploads :
         req' = [req EXCEPT ![w] =
                   [pc |-> "up_mkdir", op |-> "upload", access_code |-> code,
                    filename |-> up.filename, stream |-> up.stream,
                    dir_seen |-> code \in dirs]]
    /\ UNCHANGED <<messages, fileAccess, files, dirs, nextId, nextUuid, clock, failed, deleted, created>>

\* os.makedirs(subfolder) when the folder was not seen, then the stored name;
\* makedirs raises FileExistsError, outside the try block, when the folder
\* has appeared in between
UpMkdir(w) ==
    /\ req[w].pc = "up_mkdir"
    /\ LET r == req[w] IN
       IF ~r.dir_seen /\ r.access_code \in dirs
       THEN /\ req' = [req EXCEPT ![w] = Done(r, Unhandled)]
            /\ UNCHANGED <<dirs, nextUuid>>
       ELSE /\ dirs' = dirs \cup {r.access_code}
            /\ nextUuid' = nextUuid + 1
            /\ req' = [req EXCEPT ![w] =
                         [r EXCEPT !.pc = "up_open"] @@
                         [unique_filename |-> UniqueFilename(nextUuid, r.filename),
                          file_size |-> 0]]
    /\ UNCHANGED <<messages, fileAccess, files, nextId, clock, failed, deleted, created>>

\* the row registered when the destination is opened, before any byte
UpOpen_Registering(w) ==
    /\ req[w].pc = "up_open"
    /\ req[w].access_code \in dirs
    /\ files' = files \cup
                  {[dir |-> req[w].access_code, name |-> req[w].unique_filename,
                    data |-> req[w].stream.data, len |-> 0, open |-> TRUE]}
    /\ fileAccess' = fileAccess \cup {NewFileAccess(req[w])}
    /\ req' = [req EXCEPT ![w].pc = "up_loop"]
    /\ UNCHANGED <<messages, dirs, nextId, nextUuid, clock, failed, deleted, created>>

\* aiofiles.open(file_location, "wb"): FileNotFoundError when the folder is gone
UpOpen(w) ==
    /\ req[w].pc = "up_open"
    /\ LET r == req[w] IN
       IF r.access_code \notin dirs
       THEN UploadFailed(w, r)
       ELSE /\ files' = RemovePath(r.access_code, r.unique_filename) \cup
                          {[dir |-> r.access_code, name |-> r.unique_filename,
                            data |-> r.stream.data, len |-> 0, open |-> TRUE]}
            /\ req' = [req EXCEPT ![w].pc = "up_loop"]
            /\ UNCHANGED failed
    /\ UNCHANGED <<messages, fileAccess, dirs, nextId, nextUuid, clock, deleted, created>>

\* one turn of the streaming loop: read a chunk, count it, test the cap, write
\* it; at the end of the stream the destination is closed
UpChunk(w, faults) ==
    /\ req[w].pc = "up_loop"
    /\ LET r == req[w]
           n == NextChunk(r.stream, r.file_size)
           file_size == r.file_size + n
           here == PathExists(r.access_code, r.unique_filename)
       IN IF n = 0
          THEN /\ files' = {IF f.dir = r.access_code /\ f.name = r.unique_filename
                            THEN [f EXCEPT !.open = FALSE] ELSE f : f \in files}
               /\ req' = [req EXCEPT ![w].pc = "up_register"]
               /\ UNCHANGED failed
          ELSE IF OverCap(file_size)
          THEN IF here
               THEN /\ files' = RemovePath(r.access_code, r.unique_filename)
                    /\ failed' = failed \cup {r.unique_filename}
                    /\ req' = [req EXCEPT ![w] =
                                 Done([r EXCEPT !.file_size = file_size], TooLarge)]
               ELSE UploadFailed(w, r)
          ELSE \E fault \in faults :
                 IF fault
                 THEN UploadFailed(w, r)
                 ELSE /\ files' = {IF f.dir = r.access_code /\ f.name = r.unique_filename
                                   THEN WriteChunk(f, n) ELSE f : f \in files}
                      /\ req' = [req EXCEPT ![w].file_size = file_size]
                      /\ UNCHANGED failed
    /\ UNCHANGED <<messages, fileAccess, dirs, nextId, nextUuid, clock, deleted, created>>

\* the request is cancelled while the loop awaits a read or a write:
\* asyncio.CancelledError is no Exception, so "except Exception" is passed
\* by; "async with" closes the destination and nothing removes it.  No
\* response is sent.
Cancelled == [status |-> 0, detail |-> "cancelled"]

UpCancel(w) ==
    /\ req[w].pc = "up_loop"
    /\ LET r == req[w] IN
       /\ files' = {IF f.dir = r.access_code /\ f.name = r.unique_filename
                    THEN [f EXCEPT !.open = FALSE] ELSE f : f \in files}
       /\ failed' = failed \cup {r.unique_filename}
       /\ req' = [req EXCEPT ![w] = Done(r, Cancelled)]
    /\ UNCHANGED <<messages, fileAccess, dirs, nextId, nextUuid, clock, deleted, created>>

\* db.add(db_file_access); db.commit(); the 200 response
UpRegister(w, faults) ==
    /\ req[w].pc = "up_register"
    /\ LET r == req[w] IN
       \E fault \in faults :
         IF fault
         THEN /\ UploadFailed(w, r)
              /\ UNCHANGED fileAccess
         ELSE /\ fileAccess' = fileAccess \cup {NewFileAccess(r)}
              /\ req' = [req EXCEPT ![w] =
                           Done(r, [status |-> 200, detail |-> "ok",
                                    filename |-> r.unique_filename,
                                    original_filename |-> r.filename,
                                    size |-> r.file_size])]
              /\ UNCHANGED <<files, failed>>
    /\ UNCHANGED <<messages, dirs, nextId, nextUuid, clock, deleted, created>>

(***************************************************************************)
(* get_file ("files") and stream_video ("stream")                          *)
(***************************************************************************)
AccessDenied == HTTPException(404, "file not found or access denied")

FileMissing == HTTPException(404, "file not found")

\* the lookup left out: whatever lies on disk is served
HasFileAccess_Unchecked(filename, code) == TRUE

\* db.query(FileAccess).filter(filename == ..., access_code == ...).first()
HasFileAccess(filename, code) ==
    \E fa \in fileAccess : fa.filename = filename /\ fa.access_code = code

\* the Content-Disposition header of the response
Disposition(kind, filename) ==
    IF kind = "files"
    THEN [type |-> "attachment", filename |-> filename]
    ELSE [type |-> "none", filename |-> <<>>]

\* FileResponse(file_path, ...): the bytes served are those at the path
FileResponse(kind, code, filename) ==
    LET f == FileAt(code, filename) IN
    [status |-> 200, detail |-> "ok",
     body |-> [data |-> f.data, len |-> f.len],
     content_length |-> f.len,
     disposition |-> Disposition(kind, filename)]

\* what the handler writes to the log before it raises a 404: get_file a
\* warning without a row and an error without the file, stream_video nothing
LogEntry(kind, failure) ==
    IF kind = "files"
    THEN IF failure = "no_row"
         THEN [level |-> "warning", text |-> "access denied or file not found"]
         ELSE [level |-> "error", text |-> "file not found on disk"]
    ELSE [level |-> "none", text |-> ""]

\* the FileAccess query; after_delete records whether the blob asked for
\* belonged to a message deleted before the request began
GetQuery(w, kinds, codes, names) ==
    /\ req[w].pc = "idle"
    /\ \E kind \in kinds, code \in codes, name \in names :
         LET r == [op |-> kind, access_code |-> code, filename |-> name,
                   after_delete |->
                     [filename |-> name, access_code |-> code] \in deleted]
         IN req' = [req EXCEPT ![w] =
                      IF HasFileAccess(name, code)
                      THEN [pc |-> "get_exists"] @@ r
                      ELSE Done([log |-> LogEntry(kind, "no_row")] @@ r,
                                AccessDenied)]
    /\ UNCHANGED <<messages, fileAccess, files, dirs, nextId, nextUuid, clock, failed, deleted, created>>

\* os.path.exists(file_path)
GetExists(w) ==
    /\ req[w].pc = "get_exists"
    /\ LET r == req[w] IN
       req' = [req EXCEPT ![w] =
                 IF PathExists(r.access_code, r.filename)
                 THEN [r EXCEPT !.pc = "get_send"]
                 ELSE Done([log |-> LogEntry(r.op, "no_file")] @@ r,
                           FileMissing)]
    /\ UNCHANGED <<messages, fileAccess, files, dirs, nextId, nextUuid, clock, failed, deleted, created>>

\* os.path.getsize(file_path), which raises outside any try block when the
\* file has gone, and the file response
GetSend(w) ==
    /\ req[w].pc = "get_send"
    /\ LET r == req[w] IN
       req' = [req EXCEPT ![w] =
                 IF PathExists(r.access_code, r.filename)
                 THEN Done(r, FileResponse(r.op, r.access_code, r.filename))
                 ELSE Done(r, Unhandled)]
    /\ UNCHANGED <<messages, fileAccess, files, dirs, nextId, nextUuid, clock, failed, deleted, created>>

(***************************************************************************)
(* get_messages                                                            *)
(***************************************************************************)
RECURSIVE OrderByCreatedAtDesc(_)
\* ORDER BY created_at DESC
OrderByCreatedAtDesc(rows) ==
    IF rows = {} THEN <<>>
    ELSE LET m == CHOOSE x \in rows : \A y \in rows : y.created_at <= x.created_at
         IN <<m>> \o OrderByCreatedAtDesc(rows \ {m})

RECURSIVE OrderByCreatedAt(_)
\* ORDER BY created_at, oldest first
OrderByCreatedAt(rows) ==
    IF rows = {} THEN <<>>
    ELSE LET m == CHOOSE x \in rows : \A y \in rows : x.created_at <= y.created_at
         IN <<m>> \o OrderByCreatedAt(rows \ {m})

\* the query without .desc()
ListByCode_Ascending(code) ==
    OrderByCreatedAt({m \in messages : m.access_code = code})

\* the query ending in .limit(1) instead of .all()
ListByCode_NewestOnly(code) ==
    LET L == OrderByCreatedAtDesc({m \in messages : m.access_code = code})
    IN SubSeq(L, 1, Min(1, Len(L)))

\* db.query(Message).filter(Message.access_code == access_code)
\*   .order_by(Message.created_at.desc()).all()
ListByCode(code) ==
    OrderByCreatedAtDesc({m \in messages : m.access_code = code})

GetMessages(w, codes) ==
    /\ req[w].pc = "idle"
    /\ \E code \in codes :
         req' = [req EXCEPT ![w] =
                   Done([op |-> "list", access_code |-> code],
                        [status |-> 200, detail |-> "ok",
                         messages |-> ListByCode(code)])]
    /\ UNCHANGED <<messages, fileAccess, files, dirs, nextId, nextUuid, clock, failed, deleted, created>>

(***************************************************************************)
(* delete_message                                                          *)
(***************************************************************************)
MessageNotFound == HTTPException(404, "message not found")

Deleted == [status |-> 200, detail |-> "message deleted"]

\* the access code left out of the filter
MatchingMessages_IdOnly(id, code) == {m \in messages : m.id = id}

\* db.query(Message).filter(id == message_id, access_code == access_code)
MatchingMessages(id, code) ==
    {m \in messages : m.id = id /\ m.access_code = code}

\* message.type in ['image', 'file', 'video'] and message.content
HasBlob(m) == m.type \in FileTypes /\ m.content # <<>>

\* db.delete(message); db.commit()
DeleteRow(m) == messages \ {m}

\* the message query
DelQuery(w, ids, codes) ==
    /\ req[w].pc = "idle"
    /\ \E id \in ids, code \in codes :
         LET r == [op |-> "delete", message_id |-> id, access_code |-> code]
             found == MatchingMessages(id, code)
         IN req' = [req EXCEPT ![w] =
                      IF found = {}
                      THEN Done(r, MessageNotFound)
                      ELSE LET m == CHOOSE x \in found : TRUE IN
                           [pc |-> IF HasBlob(m) THEN "del_exists" ELSE "del_commit",
                            message |-> m] @@ r]
    /\ UNCHANGED <<messages, fileAccess, files, dirs, nextId, nextUuid, clock, failed, deleted, created>>

\* os.path.exists(file_path)
DelExists(w) ==
    /\ req[w].pc = "del_exists"
    /\ LET r == req[w] IN
       req' = [req EXCEPT ![w].pc =
                 IF PathExists(r.access_code, r.message.content)
                 THEN "del_remove" ELSE "del_commit"]
    /\ UNCHANGED <<messages, fileAccess, files, dirs, nextId, nextUuid, clock, failed, deleted, created>>

\* os.remove(file_path): an OSError (the file has gone, the path is not
\* removable) is caught by the handler's except clause and answered 500
DelRemove(w, faults) ==
    /\ req[w].pc = "del_remove"
    /\ LET r == req[w] IN
       \E fault \in faults :
         IF fault \/ ~PathExists(r.access_code, r.message.content)
         THEN /\ req' = [req EXCEPT ![w] = Done(r, InternalError)]
              /\ UNCHANGED files
         ELSE /\ files' = RemovePath(r.access_code, r.message.content)
              /\ req' = [req EXCEPT ![w].pc = "del_listdir"]
    /\ UNCHANGED <<messages, fileAccess, dirs, nextId, nextUuid, clock, failed, deleted, created>>

\* os.listdir(folder_path)
DelListdir(w) ==
    /\ req[w].pc = "del_listdir"
    /\ LET r == req[w] IN
       req' = [req EXCEPT ![w] =
                 IF r.access_code \notin dirs
                 THEN Done(r, InternalError)
                 ELSE IF ListDir(r.access_code) = {}
                 THEN [r EXCEPT !.pc = "del_rmdir"]
                 ELSE [r EXCEPT !.pc = "del_commit"]]
    /\ UNCHANGED <<messages, fileAccess, files, dirs, nextId, nextUuid, clock, failed, deleted, created>>

\* os.rmdir(folder_path): an OSError when the folder is not empty or has gone
DelRmdir(w) ==
    /\ req[w].pc = "del_rmdir"
    /\ LET r == req[w] IN
       IF r.access_code \notin dirs \/ ListDir(r.access_code) # {}
       THEN /\ req' = [req EXCEPT ![w] = Done(r, InternalError)]
            /\ UNCHANGED dirs
       ELSE /\ dirs' = dirs \ {r.access_code}
            /\ req' = [req EXCEPT ![w].pc = "del_commit"]
    /\ UNCHANGED <<messages, fileAccess, files, nextId, nextUuid, clock, failed, deleted, created>>

\* db.delete(message); db.commit(); the success response
DelCommit(w) ==
    /\ req[w].pc = "del_commit"
    /\ messages' = DeleteRow(req[w].message)
    /\ req' = [req EXCEPT ![w] = Done(req[w], Deleted)]
    /\ deleted' = deleted \cup
                    {[filename |-> m.content, access_code |-> m.access_code] :
                       m \in {x \in {req[w].message} : HasBlob(x)}}
    /\ UNCHANGED <<fileAccess, files, dirs, nextId, nextUuid, clock, failed, created>>

\* the response has been sent; the worker takes the next request
Return(w) ==
    /\ req[w].pc = "done"
    /\ req' = [req EXCEPT ![w] = Idle]
    /\ UNCHANGED <<messages, fileAccess, files, dirs, nextId, nextUuid, clock, failed, deleted, created>>

Init ==
    /\ messages = {}
    /\ fileAccess = {}
    /\ files = {}
    /\ dirs = {}
    /\ req = [w \in Workers |-> Idle]
    /\ nextId = 1
    /\ nextUuid = 1
    /\ clock = 1
    /\ failed = {}
    /\ deleted = {}
    /\ created = {}

(***************************************************************************)
(* Requests the clients send                                               *)
(***************************************************************************)
Origins == {"ip1"}

Codes == {"c1", "c2"}

Faults == {FALSE, TRUE}

\* uploads: a named file of a chunk and one byte, an empty hidden file
Uploads ==
    {[filename |-> <<"a", ".", "t">>, stream |-> [data |-> "d1", size |-> CHUNK_SIZE + 1]],
     [filename |-> <<".", "t">>, stream |-> [data |-> "d0", size |-> 0]]}

\* stored names a client can have learnt or guessed
KnownNames == {fa.filename : fa \in fileAccess} \cup {f.name : f \in files}

\* Uploading and fetching
Next ==
    \E w \in Workers :
        \/ UpExists(w, Codes, Uploads, MaxUploads)
        \/ UpMkdir(w)
        \/ UpOpen(w)
        \/ UpChunk(w, Faults)
        \/ UpRegister(w, Faults)
        \/ GetQuery(w, {"files", "stream"}, Codes, KnownNames)
        \/ GetExists(w)
        \/ GetSend(w)
        \/ Return(w)

Spec == Init /\ [][Next]_vars

\* Text messages: creating, listing, deleting.  A body may carry keys of its
\* own for the row's columns.
TextBodies ==
    [type : {"text"}, content : {<<"h", "i">>}, access_code : Codes,
     extra : {"none", "id", "created_at", "creator_ip"}, id : {1}]

NextMsg ==
    \E w \in Workers :
        \/ CmCount(w, Origins, TextBodies, MaxMessages)
        \/ CmInsert(w)
        \/ GetMessages(w, Codes)
        \/ DelQuery(w, 1..(nextId - 1), Codes)
        \/ DelCommit(w)
        \/ Return(w)

SpecMsg == Init /\ [][NextMsg]_vars

\* File messages under one access code: uploading, attaching, deleting
\* (delete requests come with either code)
OneCode == {"c1"}

SmallUploads ==
    {[filename |-> <<"a", ".", "t">>, stream |-> [data |-> "d1", size |-> 1]]}

FileBodies ==
    [type : {"file"}, content : {fa.filename : fa \in fileAccess},
     access_code : OneCode, extra : {"none"}, id : {0}]

NextDel ==
    \E w \in Workers :
        \/ CmCount(w, Origins, FileBodies, MaxFileMessages)
        \/ CmInsert(w)
        \/ UpExists(w, OneCode, SmallUploads, MaxBlobs)
        \/ UpMkdir(w)
        \/ UpOpen(w)
        \/ UpChunk(w, {FALSE})
        \/ UpRegister(w, {FALSE})
        \/ DelQuery(w, 1..(nextId - 1), Codes)
        \/ DelExists(w)
        \/ DelRemove(w, Faults)
        \/ DelListdir(w)
        \/ DelRmdir(w)
        \/ DelCommit(w)
        \/ Return(w)

SpecDel == Init /\ [][NextDel]_vars

\* The quota: one origin creating text messages under more access codes than
\* it may own.  Codes are interchangeable, so a request uses a code already in
\* use or the first one that is not.
QuotaCode(i) == "c" \o ToString(i)

CodesInUse ==
    {m.access_code : m \in messages} \cup
    {req[w].body.access_code : w \in {x \in Workers : req[x].pc = "cm_insert"}}

QuotaCodes ==
    {QuotaCode(i) : i \in {j \in 1..(MAX_ACCESS_CODES_PER_IP + 1) :
                             \A k \in 1..(j - 1) : QuotaCode(k) \in CodesInUse}}

QuotaBodies ==
    [type : {"text"}, content : {<<"h", "i">>}, access_code : QuotaCodes,
     extra : {"none"}, id : {0}]

NextQuota ==
    \E w \in Workers :
        \/ CmCount(w, Origins, QuotaBodies, MAX_ACCESS_CODES_PER_IP + MaxExtraMessages)
        \/ CmInsert(w)
        \/ Return(w)

SpecQuota == Init /\ [][NextQuota]_vars

\* The size cap: one worker taking uploads around the cap
BigUploads ==
    {[filename |-> <<"a", ".", "t">>, stream |-> [data |-> "d1", size |-> n]] :
       n \in {MAX_FILE_SIZE, MAX_FILE_SIZE + 1, MAX_FILE_SIZE + CHUNK_SIZE + 1}}

NextCap ==
    \E w \in {"w1"} :
        \/ UpExists(w, OneCode, BigUploads, MaxUploads)
        \/ UpMkdir(w)
        \/ UpOpen(w)
        \/ UpChunk(w, Faults)
        \/ UpRegister(w, Faults)
        \/ Return(w)

SpecCap == Init /\ [][NextCap]_vars

\* File messages that are deleted and whose blobs are fetched afterwards
NextGone ==
    \E w \in Workers :
        \/ CmCount(w, Origins, FileBodies, MaxGoneMessages)
        \/ CmInsert(w)
        \/ UpExists(w, OneCode, SmallUploads, MaxGoneBlobs)
        \/ UpMkdir(w)
        \/ UpOpen(w)
        \/ UpChunk(w, {FALSE})
        \/ UpRegister(w, {FALSE})
        \/ DelQuery(w, 1..(nextId - 1), OneCode)
        \/ DelExists(w)
        \/ DelRemove(w, Faults)
        \/ DelListdir(w)
        \/ DelRmdir(w)
        \/ DelCommit(w)
        \/ GetQuery(w, {"files", "stream"}, Codes, KnownNames)
        \/ GetExists(w)
        \/ GetSend(w)
        \/ Return(w)

SpecGone == Init /\ [][NextGone]_vars

\* Deletes that prune the access code's folder while uploads use it
NextPrune ==
    \E w \in Workers :
        \/ CmCount(w, Origins, FileBodies, MaxGoneMessages)
        \/ CmInsert(w)
        \/ UpExists(w, OneCode, SmallUploads, MaxUploads)
        \/ UpMkdir(w)
        \/ UpOpen(w)
        \/ UpChunk(w, {FALSE})
        \/ UpRegister(w, {FALSE})
        \/ DelQuery(w, 1..(nextId - 1), OneCode)
        \/ DelExists(w)
        \/ DelRemove(w, {FALSE})
        \/ DelListdir(w)
        \/ DelRmdir(w)
        \/ DelCommit(w)
        \/ Return(w)

SpecPrune == Init /\ [][NextPrune]_vars

\* Uploads that the client or the server may cancel while they stream
NextCancel ==
    \E w \in Workers :
        \/ UpExists(w, OneCode, Uploads, MaxUploads)
        \/ UpMkdir(w)
        \/ UpOpen(w)
        \/ UpChunk(w, {FALSE})
        \/ UpCancel(w)
        \/ UpRegister(w, {FALSE})
        \/ Return(w)

SpecCancel == Init /\ [][NextCancel]_vars

\* The quota with deletes in between, one request at a time: a request uses
\* a code the origin has created under before, or the first it never used
EverCodes ==
    {QuotaCode(i) : i \in {j \in 1..(MAX_ACCESS_CODES_PER_IP + 1) :
                             \A k \in 1..(j - 1) :
                               \E ip \in Origins : <<ip, QuotaCode(k)>> \in created}}

EverBodies ==
    [type : {"text"}, content : {<<"h", "i">>}, access_code : EverCodes,
     extra : {"none"}, id : {0}]

NextQuotaDel ==
    \E w \in {"w1"} :
        \/ CmCount(w, Origins, EverBodies, MAX_ACCESS_CODES_PER_IP + MaxExtraMessages)
        \/ CmInsert(w)
        \/ DelQuery(w, 1..(nextId - 1), {m.access_code : m \in messages})
        \/ DelCommit(w)
        \/ Return(w)

SpecQuotaDel == Init /\ [][NextQuotaDel]_vars

\* Messages of a file type whose content is whatever the client sends: a
\* stored name it has learnt, or any other text, under either code
LooseBodies ==
    [type : {"file", "image"},
     content : {fa.filename : fa \in fileAccess} \cup {<<"h", "i">>},
     access_code : Codes, extra : {"none"}, id : {0}]

NextLoose ==
    \E w \in Workers :
        \/ CmCount(w, Origins, LooseBodies, MaxFileMessages)
        \/ CmInsert(w)
        \/ UpExists(w, OneCode, SmallUploads, MaxBlobs)
        \/ UpMkdir(w)
        \/ UpOpen(w)
        \/ UpChunk(w, {FALSE})
        \/ UpRegister(w, {FALSE})
        \/ Return(w)

SpecLoose == Init /\ [][NextLoose]_vars

(***************************************************************************)
(* Properties                                                              *)
(***************************************************************************)
IsDone(w, ops) == req[w].pc = "done" /\ req[w].op \in ops

\* C1: get_file and stream_video answer with the blob only when a
\* file_access row with exactly the request's (filename, access_code) pair
\* exists; without such a row the answer is 404 and carries no file, also
\* when the stored filename lies on disk under another code.
C1_FetchNeedsFileAccess ==
    \A w \in Workers :
      IsDone(w, {"files", "stream"}) =>
        LET r == req[w].in
            row == [filename |-> r.filename, access_code |-> r.access_code]
        IN /\ req[w].resp.status = 200 => row \in fileAccess
           /\ row \notin fileAccess =>
                /\ req[w].resp.status = 404
                /\ "body" \notin DOMAIN req[w].resp

\* a fetch refused with 404 although the stored filename is on disk and
\* registered, under another access code
C1_Witness ==
    \E w \in Workers :
      /\ IsDone(w, {"files", "stream"})
      /\ req[w].resp.status = 404
      /\ \E fa \in fileAccess :
           /\ fa.filename = req[w].in.filename
           /\ fa.access_code # req[w].in.access_code
           /\ \E f \in files : f.dir = fa.access_code /\ f.name = fa.filename

\* C3: a file_access row is inserted only for a destination file that holds
\* the whole stream and is closed, and no upload that ended in 413 or 500 has
\* a row.
C3_RegisteredAfterWritten ==
    [][/\ \A fa \in fileAccess' \ fileAccess :
            \E w \in Workers :
              /\ req[w].pc = "up_register"
              /\ fa = [filename |-> req[w].unique_filename,
                       access_code |-> req[w].access_code]
              /\ req[w].file_size = req[w].stream.size
              /\ \E f \in files :
                   /\ f.dir = fa.access_code /\ f.name = fa.filename
                   /\ ~f.open
                   /\ f.data = req[w].stream.data
                   /\ f.len = req[w].stream.size
       /\ \A fa \in fileAccess' : fa.filename \notin failed'
       /\ \A w \in Workers :
            (/\ req'[w].pc = "done" /\ req'[w].op = "upload"
             /\ req'[w].resp.status # 200
             /\ "unique_filename" \in DOMAIN req'[w].in)
            => /\ req'[w].in.unique_filename \in failed'
               /\ \A fa \in fileAccess' :
                    fa.filename # req'[w].in.unique_filename
      ]_vars

\* one upload registered and another one failed
C3_Witness ==
    /\ failed # {}
    /\ \E fa \in fileAccess : \E f \in files : f.name = fa.filename /\ f.len > 0

\* a finished upload u and a finished download g of the name u was given
RoundTrip(u, g) ==
    /\ IsDone(u, {"upload"}) /\ req[u].resp.status = 200
    /\ IsDone(g, {"files"}) /\ req[g].resp.status = 200
    /\ req[g].in.filename = req[u].resp.filename
    /\ req[g].in.access_code = req[u].in.access_code

SameBytes(u, g) ==
    /\ req[g].resp.body = [data |-> req[u].in.stream.data,
                           len |-> req[u].in.stream.size]
    /\ req[g].resp.content_length = req[u].in.stream.size

C7_TooLargeLeavesNothing ==
    /\ \A f \in files : f.len <= MAX_FILE_SIZE
    /\ \A w \in Workers :
         (IsDone(w, {"upload"}) /\ "unique_filename" \in DOMAIN req[w].in) =>
           LET r == req[w].in IN
           /\ req[w].resp = TooLarge =>
                /\ r.stream.size > MAX_FILE_SIZE
                /\ r.file_size > MAX_FILE_SIZE
                /\ r.file_size - CHUNK_SIZE <= MAX_FILE_SIZE
           /\ r.stream.size > MAX_FILE_SIZE =>
                /\ req[w].resp \in {TooLarge, InternalError}
                /\ req[w].resp = InternalError => r.file_size <= MAX_FILE_SIZE
                /\ ~PathExists(r.access_code, r.unique_filename)
                /\ \A fa \in fileAccess : fa.filename # r.unique_filename

\* an upload of more than a chunk over the cap answered 413
C7_Witness ==
    \E w \in Workers :
      /\ IsDone(w, {"upload"})
      /\ req[w].resp = TooLarge
      /\ req[w].in.stream.size > MAX_FILE_SIZE + CHUNK_SIZE
      /\ req[w].in.unique_filename \in failed

\* C8: a row leaves the messages table only through a delete request whose id
\* and access code both equal the row's; a delete request that matches no
\* row is answered with the one 404 response, whether the id is unknown,
\* already deleted or under another code, and changes nothing.
C8_DeleteNeedsIdAndCode ==
    [][/\ \A m \in messages \ messages' :
            \E w \in Workers :
              /\ req[w].pc = "del_commit"
              /\ req'[w].pc = "done" /\ req'[w].resp = Deleted
              /\ m.id = req[w].message_id
              /\ m.access_code = req[w].access_code
       /\ \A w \in Workers :
            (req[w].pc = "idle" /\ req'[w].op = "delete") =>
              LET r == IF req'[w].pc = "done" THEN req'[w].in ELSE req'[w]
                  match == {m \in messages : /\ m.id = r.message_id
                                             /\ m.access_code = r.access_code}
              IN IF match = {}
                 THEN /\ req'[w].pc = "done"
                      /\ req'[w].resp = MessageNotFound
                      /\ UNCHANGED <<messages, fileAccess, files, dirs>>
                 ELSE /\ req'[w].pc # "done"
                      /\ req'[w].message \in match
      ]_vars

\* a delete answered 404 for an id that exists under another access code
C8_Witness ==
    \E w \in Workers :
      /\ IsDone(w, {"delete"})
      /\ req[w].resp = MessageNotFound
      /\ \E m \in messages :
           m.id = req[w].in.message_id /\ m.access_code # req[w].in.access_code

\* C9: get_messages returns exactly the rows whose access_code is the
\* requested one, each once, the later created_at first.
C9_ListNewestFirst ==
    [][\A w \in Workers :
         (req[w].pc = "idle" /\ req'[w].op = "list") =>
           LET L == req'[w].resp.messages
               rows == {m \in messages : m.access_code = req'[w].in.access_code}
           IN /\ {L[i] : i \in DOMAIN L} = rows
              /\ Len(L) = Cardinality(rows)
              /\ \A i, j \in DOMAIN L : i < j => L[i].created_at > L[j].created_at
      ]_vars

\* a listing of two messages, the later one having the smaller id, while a
\* message under another code exists
C9_Witness ==
    \E w \in Workers :
      /\ IsDone(w, {"list"})
      /\ Len(req[w].resp.messages) >= 2
      /\ req[w].resp.messages[1].id < req[w].resp.messages[2].id
      /\ \E m \in messages : m.access_code # req[w].in.access_code

\* C2: whatever the interleaving of its create requests, an origin never has
\* message rows under more than MAX_ACCESS_CODES_PER_IP distinct access codes.
C2_QuotaNeverExceeded ==
    \A ip \in Origins :
      Cardinality({m.access_code : m \in {x \in messages : x.creator_ip = ip}})
        <= MAX_ACCESS_CODES_PER_IP

\* C4: after a successful delete of an image, file or video message with
\* content, the message row is gone, no file_access row for
\* (content, access code) remains, and the blob is not on disk.
C4_DeleteRemovesRowIndexAndBlob ==
    \A w \in Workers :
      (IsDone(w, {"delete"}) /\ req[w].resp = Deleted /\ HasBlob(req[w].in.message)) =>
        LET r == req[w].in IN
        /\ r.message \notin messages
        /\ [filename |-> r.message.content, access_code |-> r.access_code]
             \notin fileAccess
        /\ ~PathExists(r.access_code, r.message.content)

\* C6: a create request under an access code the origin already owns is
\* never answered 429, however many codes the origin owns.
C6_OwnedCodeNeverDenied ==
    \A w \in Workers :
      (IsDone(w, {"create"}) /\ req[w].in.owned) => req[w].resp.status # 429

\* C10: a delete request that found its image, file or video message ends in
\* success with the message row removed, also when the blob could not be
\* removed from disk.
C10_DeleteSurvivesBlobFailure ==
    \A w \in Workers :
      (/\ IsDone(w, {"delete"})
       /\ "message" \in DOMAIN req[w].in
       /\ HasBlob(req[w].in.message))
      => /\ req[w].resp = Deleted
         /\ req[w].in.message \notin messages

\* which of the two failures a finished get_file or stream_video met: the
\* query found no row ("no_row"), or the path was not on disk ("no_file")
FetchFailure(w) ==
    IF ~IsDone(w, {"files", "stream"}) \/ req[w].resp.status # 404 THEN "none"
    ELSE IF "pc" \in DOMAIN req[w].in THEN "no_file"
    ELSE "no_row"

\* C11: for get_file and for stream_video, the response (status and
\* message) without a matching file_access row is the same as the response
\* with a row whose file is missing on disk, and the log entries that the two
\* failures write differ.
C11_FailuresAlikeLoggedApart ==
    \A w1, w2 \in Workers :
      /\ FetchFailure(w1) = "no_row"
      /\ FetchFailure(w2) = "no_file"
      /\ req[w1].op = req[w2].op
      => /\ req[w1].resp = req[w2].resp
         /\ req[w1].in.log # req[w2].in.log

\* C12: an upload cancelled while its stream is being written ends like an
\* I/O failure: the partly written destination is not on disk any more and
\* no file_access row is registered for it.
C12_CancelledUploadLeavesNothing ==
    \A w \in Workers :
      IsDone(w, {"upload"}) /\ req[w].resp = Cancelled =>
        /\ ~PathExists(req[w].in.access_code, req[w].in.unique_filename)
        /\ NewFileAccess(req[w].in) \notin fileAccess

\* C13: once delete_message has removed a message of a file type with
\* success, a get_file or stream_video that begins afterwards for the
\* message's stored filename and access code never comes to send the file:
\* it ends with 404, in every later state.
C13_DeletedBlobStaysNotFound ==
    \A w \in Workers :
      /\ req[w].pc \in {"get_exists", "get_send"} /\ req[w].after_delete
           => req[w].pc # "get_send"
      /\ IsDone(w, {"files", "stream"}) /\ req[w].in.after_delete
           => req[w].resp.status = 404

\* a fetch begun after the delete, under the code whose file_access row is
\* still there, answered with the 404 for a file that is not on disk
C13_Witness ==
    \E w \in Workers :
      /\ IsDone(w, {"files", "stream"})
      /\ req[w].in.after_delete
      /\ HasFileAccess(req[w].in.filename, req[w].in.access_code)
      /\ req[w].resp = FileMissing

\* C14: pruning the access code's folder is best-effort: a delete_message
\* that has removed its blob never fails at the emptiness check or at the
\* folder's removal, whatever concurrent requests do to the folder, and the
\* message row is deleted.
C14_PruneNeverFailsDelete ==
    \A w \in Workers :
      /\ IsDone(w, {"delete"})
      /\ "pc" \in DOMAIN req[w].in
      /\ req[w].in.pc \in {"del_listdir", "del_rmdir"}
      =>
        /\ req[w].resp = Deleted
        /\ req[w].in.message \notin messages

\* C15: upload_file never fails because another request has just created or
\* just removed the access code's folder: neither os.makedirs nor the opening
\* of the destination ends the upload with an error.
C15_UploadSurvivesFolderRace ==
    \A w \in Workers :
      IsDone(w, {"upload"}) /\ req[w].in.pc \in {"up_mkdir", "up_open"} =>
        req[w].resp.status = 200

\* the access codes under which an origin has ever had a row written
EverCreated(ip) == {p[2] : p \in {q \in created : q[1] = ip}}

\* C16: the quota counts over the origin's lifetime: the access codes under
\* which an origin has ever created messages never number more than
\* MAX_ACCESS_CODES_PER_IP, whatever has been deleted in between; with
\* MAX_ACCESS_CODES_PER_IP codes used, a create under a further code is
\* answered 429.
C16_QuotaIsLifetime ==
    /\ \A ip \in Origins : Cardinality(EverCreated(ip)) <= MAX_ACCESS_CODES_PER_IP
    /\ \A w \in Workers :
         /\ IsDone(w, {"create"})
         /\ Cardinality(EverCreated(req[w].in.ip) \ {req[w].in.body.access_code})
              >= MAX_ACCESS_CODES_PER_IP
         => req[w].resp = QuotaExceeded

C18_FileMessageHasFileAccess ==
    \A m \in messages :
      m.type \in FileTypes =>
        \E fa \in fileAccess :
          fa.filename = m.content /\ fa.access_code = m.access_code

\* C19: the id of every row written to table "messages" is the one the
\* store hands out, larger than the id of every row written before; it is
\* never the body's.
C19_IdAssignedByStore ==
    [][\A m \in messages' \ messages :
         /\ m.id = nextId
         /\ \A x \in messages : x.id < m.id
      ]_vars

\* C20: every row written to table "messages" carries the server's clock
\* reading and the origin of the request that wrote it, also when the body
\* itself has a created_at or creator_ip key, and no step changes a row that
\* is in the table.
C20_ServerStampsKept ==
    [][/\ \A m \in messages' \ messages :
            \E w \in Workers :
              /\ req[w].pc = "cm_insert" /\ req'[w].pc = "done"
              /\ m.created_at = clock
              /\ m.creator_ip = req[w].ip
       /\ \A m \in messages, n \in messages' : n.id = m.id => n = m
      ]_vars

\* a create whose body carries created_at or creator_ip has ended, leaving
\* no row of its own, beside a row with the server's values
C20_Witness ==
    \E w \in Workers :
      /\ IsDone(w, {"create"})
      /\ req[w].in.body.extra \in {"created_at", "creator_ip"}
      /\ req[w].resp = InternalError
      /\ \E m \in messages : m.creator_ip = req[w].in.ip /\ m.created_at < clock

====
